---- MODULE Spec2Model ----
(***************************************************************************)
(* Trace Explorer (app.py): the CSV trace parser, the WRI-connections      *)
(* two-stage pipeline, and the HTTP handlers over the in-memory trace      *)
(* store.  Three specifications share this module:                         *)
(*   SpecParse  parse_traces run over a bounded CSV file, row by row;      *)
(*   SpecWri    analyze_wri_connections_batch run over a batch, call by    *)
(*              call;                                                      *)
(*   Spec       the Flask handlers, one action per request.                *)
(* The LLM and the search service are external: every call's outcome is a  *)
(* nondeterministic choice over the responses listed below.                *)
(***************************************************************************)
EXTENDS Integers, Sequences, FiniteSets, TLC

VARIABLES
    csv_rows,           \* parse_traces: the rows csv.DictReader yields
    row_idx,            \* parse_traces: position of the reader in csv_rows
    traces,             \* parse_traces: the local list `traces`
    parse_pc,           \* parse_traces: "reading", "returned" or "raised"
    w_batch,            \* analyze_wri_connections_batch: ids of the traces passed in
    w_i,                \* ... position of the for loop in w_batch
    w_pc,               \* ... place in the loop body
    w_analysis,         \* ... the classification response of the current trace
    w_search,           \* ... the search response of the current trace
    w_results,          \* ... the local list `results`
    w_log,              \* calls issued to and returned by the model, in order
    traces_data,        \* the global list of loaded traces
    analysis_cache,     \* the keys of the global dict analysis_cache
    translation_cache,  \* the global dict translation_cache, by trace id
    last,               \* the request served last and its response
    prev,               \* traces_data and the caches as that request found them
    translate_log,      \* the /api/translate requests served, in order
    nreq                \* the number of requests served

parse_vars == <<csv_rows, row_idx, traces, parse_pc>>
wri_vars == <<w_batch, w_i, w_pc, w_analysis, w_search, w_results, w_log>>
api_vars == <<traces_data, analysis_cache, translation_cache, last, prev,
              translate_log, nreq>>

vars == <<csv_rows, row_idx, traces, parse_pc,
          w_batch, w_i, w_pc, w_analysis, w_search, w_results, w_log,
          traces_data, analysis_cache, translation_cache, last, prev,
          translate_log, nreq>>

(***************************************************************************)
(* JSON values as the parser meets them.  A value is a record              *)
(* [t, s, parts]: t is the JSON type ("absent" for a key that is not       *)
(* there), s the text of a string, parts the items of an array.            *)
(***************************************************************************)
Absent == "<absent>"

JV(t, s, parts) == [t |-> t, s |-> s, parts |-> parts]
JStr(s) == JV("string", s, <<>>)
JNumber == JV("number", "5", <<>>)
JObject == JV("object", "", <<>>)
JNull == JV("null", "", <<>>)
JAbsent == JV("absent", "", <<>>)
JList(parts) == JV("array", "", parts)

\* An item of a content list: an object with "type" and "text", or a bare string.
Part(type, text) == [t |-> "object", type |-> type, text |-> text]
BarePart == [t |-> "string", type |-> Absent, text |-> "raw"]

\* An item of a messages list: an object with "type" and "content", or a bare string.
Msg(type, content) == [t |-> "object", type |-> type, content |-> content]
BareMsg == [t |-> "string", type |-> Absent, content |-> JAbsent]

\* A decoded input/output document.  mt is the JSON type of its "messages" value.
Doc(t, mt, messages) == [t |-> t, mt |-> mt, messages |-> messages]
DocMessages(messages) == Doc("object", "array", messages)
DocEmpty == Doc("object", "absent", <<>>)
DocArray == Doc("array", "absent", <<>>)
DocNullMessages == Doc("object", "null", <<>>)

\* A CSV column holding JSON text: raw is "absent", "empty", "invalid" or "json".
Col(raw, doc) == [raw |-> raw, doc |-> doc]
ColJson(doc) == Col("json", doc)
ColAbsent == Col("absent", DocEmpty)
ColEmpty == Col("empty", DocEmpty)
ColInvalid == Col("invalid", DocEmpty)

\* Python truth value of a JSON value.
Truthy(v) ==
    CASE v.t = "string" -> v.s # ""
      [] v.t = "array" -> v.parts # <<>>
      [] v.t = "number" -> TRUE
      [] v.t = "object" -> TRUE
      [] OTHER -> FALSE

\* json.loads(row.get(col, '{}') or '{}')
JsonLoads(col) ==
    CASE col.raw \in {"absent", "empty"} -> [exc |-> "none", doc |-> DocEmpty]
      [] col.raw = "invalid" -> [exc |-> "JSONDecodeError", doc |-> DocEmpty]
      [] OTHER -> [exc |-> "none", doc |-> col.doc]

\* data.get('messages', []) followed by iteration over the value
GetMessages(doc) ==
    CASE doc.t # "object" -> [exc |-> "AttributeError", items |-> <<>>]
      [] doc.mt = "absent" -> [exc |-> "none", items |-> <<>>]
      [] OTHER -> [exc |-> "none", items |-> doc.messages]

\* msg.get('content', '')
GetContent(msg) == IF msg.content.t = "absent" THEN JStr("") ELSE msg.content

\* msg.get('type', default)
GetRole(msg, default) == IF msg.type = Absent THEN default ELSE msg.type

Turn(role, content) == [role |-> role, content |-> content]

\* '\n'.join(text_parts)
RECURSIVE JoinLines(_)
JoinLines(texts) ==
    IF texts = <<>> THEN ""
    ELSE IF Len(texts) = 1 THEN texts[1]
    ELSE texts[1] \o "\n" \o JoinLines(Tail(texts))

\* [p.get('text', '') for p in content if isinstance(p, dict) and p.get('type') == 'text']
RECURSIVE TextParts(_)
TextParts(parts) ==
    IF parts = <<>> THEN <<>>
    ELSE LET p == Head(parts)
             rest == TextParts(Tail(parts))
         IN IF p.t = "object" /\ p.type = "text"
            THEN <<(IF p.text = Absent THEN "" ELSE p.text)>> \o rest
            ELSE rest

\* The loop over input_messages (lines 271-277).
RECURSIVE InputTurns(_, _)
InputTurns(items, conv) ==
    IF items = <<>> THEN [exc |-> "none", conv |-> conv]
    ELSE LET msg == Head(items) IN
         IF msg.t # "object" THEN [exc |-> "AttributeError", conv |-> conv]
         ELSE LET content == GetContent(msg) IN
              IF Truthy(content) /\ content.t = "string"
              THEN InputTurns(Tail(items),
                              Append(conv, Turn(GetRole(msg, "human"), content)))
              ELSE InputTurns(Tail(items), conv)

\* content not in seen_contents, for a content that is to be appended
NotSeenBug(content, seen) == TRUE
NotSeen(content, seen) == content \notin seen

\* The loop over output_messages (lines 281-293).
RECURSIVE OutputTurns(_, _, _)
OutputTurns(items, conv, seen) ==
    IF items = <<>> THEN [exc |-> "none", conv |-> conv]
    ELSE LET msg == Head(items) IN
         IF msg.t # "object" THEN [exc |-> "AttributeError", conv |-> conv]
         ELSE LET got == GetContent(msg)
                  content == IF got.t = "array"
                             THEN JStr(JoinLines(TextParts(got.parts)))
                             ELSE got
              IN IF ~Truthy(content) THEN OutputTurns(Tail(items), conv, seen)
                 ELSE IF content.t = "object"
                 THEN [exc |-> "TypeError", conv |-> conv]
                 ELSE IF NotSeen(content, seen)
                 THEN OutputTurns(Tail(items),
                                  Append(conv, Turn(GetRole(msg, "ai"), content)),
                                  seen \cup {content})
                 ELSE OutputTurns(Tail(items), conv, seen)

\* A number as Python holds it: its type and ten times its value.
PyNum(t, x10) == [t |-> t, x10 |-> x10]

\* float(row.get(col, 0) or 0)
PyFloat(text) ==
    CASE text \in {Absent, ""} -> [exc |-> "none", val |-> PyNum("float", 0)]
      [] text = "12" -> [exc |-> "none", val |-> PyNum("float", 120)]
      [] text = "1.5" -> [exc |-> "none", val |-> PyNum("float", 15)]
      [] OTHER -> [exc |-> "ValueError", val |-> PyNum("float", 0)]

\* int(row.get(col, 0) or 0)
PyInt(text) ==
    CASE text \in {Absent, ""} -> [exc |-> "none", val |-> PyNum("int", 0)]
      [] text = "12" -> [exc |-> "none", val |-> PyNum("int", 120)]
      [] OTHER -> [exc |-> "ValueError", val |-> PyNum("int", 0)]

NumericColumns == <<"latency", "inputTokens", "outputTokens", "totalCost", "errorCount">>
FloatColumns == {"latency", "totalCost"}

\* The conversions of lines 302-306, in the order the dict literal evaluates them.
Convert(col, text) == IF col \in FloatColumns THEN PyFloat(text) ELSE PyInt(text)

FirstNumericError(num) ==
    LET bad == {i \in 1..Len(NumericColumns) :
                  Convert(NumericColumns[i], num[NumericColumns[i]]).exc # "none"}
    IN IF bad = {} THEN "none" ELSE "ValueError"

\* The exceptions the except clause of line 314 catches.
CaughtByParser == {"JSONDecodeError", "KeyError", "ValueError"}

\* The body of the try block for one row (lines 259-312): the exception it
\* ends with ("none" when it completes), the trace it built and whether the
\* trace is appended.
ParseRowBody(row) ==
    LET in == JsonLoads(row.input)
        out == JsonLoads(row.output)
        inMsgs == GetMessages(in.doc)
        outMsgs == GetMessages(out.doc)
        inTurns == InputTurns(inMsgs.items, <<>>)
        outTurns == OutputTurns(outMsgs.items, inTurns.conv,
                                {inTurns.conv[i].content : i \in 1..Len(inTurns.conv)})
        numExc == FirstNumericError(row.num)
        exc == CASE in.exc # "none" -> in.exc
                 [] out.exc # "none" -> out.exc
                 [] inMsgs.exc # "none" -> inMsgs.exc
                 [] outMsgs.exc # "none" -> outMsgs.exc
                 [] in.doc.mt = "null" -> "TypeError"
                 [] inTurns.exc # "none" -> inTurns.exc
                 [] out.doc.mt = "null" -> "TypeError"
                 [] outTurns.exc # "none" -> outTurns.exc
                 [] OTHER -> numExc
        trace == [id |-> row.id,
                  conversation |-> outTurns.conv,
                  latency |-> PyFloat(row.num["latency"]).val,
                  input_tokens |-> PyInt(row.num["inputTokens"]).val,
                  output_tokens |-> PyInt(row.num["outputTokens"]).val,
                  total_cost |-> PyFloat(row.num["totalCost"]).val,
                  error_count |-> PyInt(row.num["errorCount"]).val]
    IN [exc |-> exc, trace |-> trace,
        keep |-> exc = "none" /\ outTurns.conv # <<>>]

(***************************************************************************)
(* analyze_wri_connections_batch and search_wri_evidence.                  *)
(***************************************************************************)

\* A score as the model's JSON gives it: a number, a string, or no key.
Score(t, n) == [t |-> t, n |-> n]
ScoreAbsent == Score("absent", 0)
ScoreNumber(n) == Score("number", n)
ScoreText == Score("string", 75)

\* The response to the classification call (lines 193-204).  kind "error" is
\* a call that raised or a text json.loads rejects, "array" a JSON text that
\* is not an object, "object" the object asked for; "none" is no response.
Classification(kind, score, has_connection, topic, region, wri_program, partner_type, story) ==
    [kind |-> kind, score |-> score, has_connection |-> has_connection, topic |-> topic,
     region |-> region, wri_program |-> wri_program, partner_type |-> partner_type,
     story |-> story]
ClassificationOf(kind) ==
    Classification(kind, ScoreAbsent, Absent, JAbsent, JAbsent, JAbsent, JAbsent, Absent)
NoClassification == ClassificationOf("none")

\* The response to the search call (lines 96-110) and the first grounding
\* chunk's uri (lines 113-127; Absent when the metadata holds none).
SearchResponse(kind, found, url, source, grounding) ==
    [kind |-> kind, found |-> found, url |-> url, source |-> source, grounding |-> grounding]
NoSearch == SearchResponse("none", Absent, JAbsent, JAbsent, Absent)

\* The dict of line 132.
Sentinel == SearchResponse("object", "false", JNull, JNull, Absent)

\* search_wri_evidence, from the response on (lines 95-132): what it returns.
SearchWriEvidenceBug(sr) ==
    CASE sr.kind = "error" -> SearchResponse("array", Absent, JAbsent, JAbsent, Absent)
      [] sr.kind = "array" -> IF sr.grounding # Absent THEN Sentinel ELSE sr
      [] OTHER -> IF sr.grounding # Absent
                  THEN [sr EXCEPT !.url = JStr(sr.grounding), !.found = "true"]
                  ELSE sr
SearchWriEvidence(sr) ==
    CASE sr.kind = "error" -> Sentinel
      [] sr.kind = "array" -> IF sr.grounding # Absent THEN Sentinel ELSE sr
      [] OTHER -> IF sr.grounding # Absent
                  THEN [sr EXCEPT !.url = JStr(sr.grounding), !.found = "true"]
                  ELSE sr

DefaultStory == "No specific WRI connection identified."

\* ' '.join(parts) for a list of strings
RECURSIVE JoinSpaces(_)
JoinSpaces(texts) ==
    IF texts = <<>> THEN ""
    ELSE IF Len(texts) = 1 THEN texts[1]
    ELSE texts[1] \o " " \o JoinSpaces(Tail(texts))

\* Lines 210-222: the search query, or the TypeError str.join raises on a
\* part that is not a string.
SearchQuery(a) ==
    LET parts == <<a.topic, a.region>>
                 \o (IF Truthy(a.wri_program) THEN <<a.wri_program>> ELSE <<>>)
                 \o (IF Truthy(a.partner_type)
                     THEN <<JStr("WRI " \o a.partner_type.s \o " partnership")>>
                     ELSE <<>>)
        kept == SelectSeq(parts, Truthy)
    IN IF \E i \in 1..Len(kept) : kept[i].t # "string"
       THEN [exc |-> "TypeError", text |-> ""]
       ELSE [exc |-> "none", text |-> JoinSpaces([i \in 1..Len(kept) |-> kept[i].s])]

\* analysis.get('score', 0) >= 50 and analysis.get('has_connection') (line 209)
SearchWantedBug(a) == a.score.n > 50 /\ a.has_connection = "true"
SearchWanted(a) ==
    (IF a.score.t = "absent" THEN 0 ELSE a.score.n) >= 50 /\ a.has_connection = "true"

Min(a, b) == IF a < b THEN a ELSE b

\* min(100, analysis.get('score', 0) + 5) (line 232)
BoostedScoreBug(n) == n + 5
BoostedScore(n) == Min(100, n + 5)

Result(trace_id, score, reason) == [trace_id |-> trace_id, score |-> score, reason |-> reason]

\* Lines 242-246.
ErrorResult(trace_id) == Result(trace_id, 0, "Analysis error")

GetScore(a) == IF a.score.t = "absent" THEN 0 ELSE a.score.n
GetStory(a, default) == IF a.story = Absent THEN default ELSE a.story

\* What the try block does once the classification response is in hand
\* (lines 204-223): "raise" (the except clause of line 240 takes over),
\* "search" (line 224 is reached) or "append" (line 234 with no search).
AfterClassification(a) ==
    CASE a.kind # "object" -> "raise"
      [] a.score.t = "string" -> "raise"
      [] ~SearchWanted(a) -> "append"
      [] SearchQuery(a).exc # "none" -> "raise"
      [] SearchQuery(a).text = "" -> "append"
      [] OTHER -> "search"

\* evidence.get('found') and evidence.get('url') (line 226)
IsHit(ev) == ev.found = "true" /\ Truthy(ev.url)

\* Lines 226-238 for the evidence search_wri_evidence returned.
ResultWithEvidence(trace_id, a, ev) ==
    IF ev.kind # "object" THEN ErrorResult(trace_id)
    ELSE IF IsHit(ev)
    THEN Result(trace_id, BoostedScore(GetScore(a)),
                GetStory(a, "") \o " See: " \o ev.url.s
                \o (IF Truthy(ev.source) THEN " (" \o ev.source.s \o ")" ELSE ""))
    ELSE Result(trace_id, GetScore(a), GetStory(a, DefaultStory))

\* Lines 234-246 when no search was made.
ResultWithoutSearch(trace_id, a) ==
    IF AfterClassification(a) = "raise" THEN ErrorResult(trace_id)
    ELSE Result(trace_id, GetScore(a), GetStory(a, DefaultStory))

(***************************************************************************)
(* The responses the model may give.                                       *)
(***************************************************************************)
MaxBatch == 2

Topics == JList(<<Part("text", "palm oil"), Part("text", "restoration")>>)

\* topic, region, wri_program, partner_type as returned together.
FieldShapes ==
    {<<JStr(""), JAbsent, JStr(""), JNull>>,
     <<JStr("palm oil"), JAbsent, JStr(""), JNull>>,
     <<JStr(""), JStr("Brazil"), JStr(""), JNull>>,
     <<JAbsent, JNull, JStr("AFR100"), JAbsent>>,
     <<JNull, JStr(""), JAbsent, JStr("NGO")>>,
     <<JStr("palm oil"), JStr("Brazil"), JStr("AFR100"), JStr("NGO")>>,
     <<Topics, JStr("Brazil"), JStr(""), JNull>>}

Scores == {ScoreAbsent, ScoreNumber(49), ScoreNumber(50), ScoreNumber(98), ScoreText}

Classifications ==
    {ClassificationOf("error"), ClassificationOf("array")}
    \cup {Classification("object", sc, hc, f[1], f[2], f[3], f[4], st) :
            sc \in Scores, hc \in {"true", "false", Absent}, f \in FieldShapes,
            st \in {"Palm oil story.", Absent}}

SearchResponses ==
    {SearchResponse("error", Absent, JAbsent, JAbsent, Absent)}
    \cup {SearchResponse("array", Absent, JAbsent, JAbsent, g) : g \in {Absent, "https://g.example/1"}}
    \cup {SearchResponse("object", fd, u, src, g) :
            fd \in {"true", "false"}, u \in {JNull, JStr("https://wri.org/a")},
            src \in {JStr(""), JStr("WRI Insights")}, g \in {Absent, "https://g.example/1"}}

TraceId(i) == "t" \o ToString(i)

Event(ev, i) == [ev |-> ev, i |-> i]

WriIdle ==
    /\ w_batch = <<>>
    /\ w_i = 1
    /\ w_pc = "idle"
    /\ w_analysis = NoClassification
    /\ w_search = NoSearch
    /\ w_results = <<>>
    /\ w_log = <<>>

ParseIdle ==
    /\ csv_rows = <<>>
    /\ row_idx = 1
    /\ traces = <<>>
    /\ parse_pc = "idle"

(***************************************************************************)
(* The trace store and the request handlers.                               *)
(***************************************************************************)

\* The keys of INTEREST_CATEGORIES.  product_features, research_areas and
\* dataset_priorities take the same path through every handler as showcase
\* (the only key the code singles out is wri_connections, line 466).
INTEREST_CATEGORIES == {"showcase", "product_features", "wri_connections"}

batch_size == 5
TopN == 10

\* scores[c] of a trace with no key c.
NoScore == 0 - 1

\* A trace as parse_traces leaves it (lines 295-309): no scores, no analysis.
LoadedTrace(id) ==
    [id |-> id,
     scores |-> [c \in INTEREST_CATEGORIES |-> NoScore],
     analysis |-> [c \in INTEREST_CATEGORIES |-> Absent]]

\* category in t.get('scores', {})
HasScore(t, category) == t.scores[category] # NoScore

\* The response to the batch-scoring call (lines 373-385): kind as for a
\* Classification; analyses is the value of its "analyses" key, a list of
\* {trace_id, score, reason} objects any key of which may be missing
\* (trace_id Absent, score NoScore, reason Absent).
BatchResponse(kind, analyses) == [kind |-> kind, analyses |-> analyses]

\* analyze_trace_batch, from the response on (lines 372-389).
AnalyzeTraceBatch(resp) == IF resp.kind = "object" THEN resp.analyses ELSE <<>>

\* One iteration of analyze_wri_connections_batch (lines 139-246).
WriTraceResult(trace_id, a, sr) ==
    IF AfterClassification(a) = "search"
    THEN ResultWithEvidence(trace_id, a, SearchWriEvidence(sr))
    ELSE ResultWithoutSearch(trace_id, a)

\* range(0, len(traces_data), batch_size) and traces_data[i:i+batch_size]
BatchCount(n) == (n + batch_size - 1) \div batch_size
BatchOf(store, b) ==
    SubSeq(store, (b - 1) * batch_size + 1, Min(b * batch_size, Len(store)))

RECURSIVE Concat(_)
Concat(seqs) == IF seqs = <<>> THEN <<>> ELSE Head(seqs) \o Concat(Tail(seqs))

MaxOf(S) == CHOOSE x \in S : \A y \in S : y <= x

\* analysis_map[trace_id] (line 473): the last entry that carries the id.
AnalysisMap(all, trace_id) ==
    all[MaxOf({k \in 1..Len(all) : all[k].trace_id = trace_id})]

\* trace['scores'][category] = analysis['score'] (line 477)
StoreScoreBug(trace, category, score) ==
    IF trace.scores[category] # NoScore THEN trace
    ELSE [trace EXCEPT !.scores[category] = score]
StoreScore(trace, category, score) == [trace EXCEPT !.scores[category] = score]

\* The loop of lines 474-478 from trace i on: the store it leaves and the
\* exception it ends with.
RECURSIVE UpdateTraces(_, _, _, _)
UpdateTraces(store, i, category, all) ==
    IF i > Len(store) THEN [store |-> store, exc |-> "none"]
    ELSE IF \A k \in 1..Len(all) : all[k].trace_id # store[i].id
    THEN UpdateTraces(store, i + 1, category, all)
    ELSE LET a == AnalysisMap(all, store[i].id)
             scored == [store EXCEPT ![i] = StoreScore(store[i], category, a.score)]
         IN IF a.score = NoScore THEN [store |-> store, exc |-> "KeyError"]
            ELSE IF a.reason = Absent THEN [store |-> scored, exc |-> "KeyError"]
            ELSE UpdateTraces([scored EXCEPT ![i].analysis[category] = a.reason],
                              i + 1, category, all)

\* Lines 472-478: building analysis_map raises KeyError on an entry with no
\* trace_id, before any trace is touched.
MergeAnalyses(store, category, all) ==
    IF \E k \in 1..Len(all) : all[k].trace_id = Absent
    THEN [store |-> store, exc |-> "KeyError"]
    ELSE UpdateTraces(store, 1, category, all)

\* list.sort(key=score, reverse=True): stable, equal keys keep their order.
RECURSIVE InsertByScore(_, _, _)
InsertByScore(sorted, t, category) ==
    IF sorted = <<>> THEN <<t>>
    ELSE IF Head(sorted).scores[category] >= t.scores[category]
    THEN <<Head(sorted)>> \o InsertByScore(Tail(sorted), t, category)
    ELSE <<t>> \o sorted

RECURSIVE SortByScore(_, _)
SortByScore(list, category) ==
    IF list = <<>> THEN <<>>
    ELSE InsertByScore(SortByScore(SubSeq(list, 1, Len(list) - 1), category),
                       list[Len(list)], category)

\* [t for t in list if category in t.get('scores', {})]
Scored(list, category) ==
    LET Has(t) == HasScore(t, category) IN SelectSeq(list, Has)

\* list[:n]
SliceTo(list, n) ==
    IF n >= 0 THEN SubSeq(list, 1, Min(n, Len(list)))
    ELSE SubSeq(list, 1, Len(list) + n)

\* The limit query parameter: request.args.get('limit', type=int).
Limit(given, n) == [given |-> given, n |-> n]
NoLimit == Limit(FALSE, 0)

\* if limit: result = result[:limit] (lines 431-432)
ApplyLimit(list, limit) ==
    IF limit.given /\ limit.n # 0 THEN SliceTo(list, limit.n) ELSE list

\* The first trace with the id, or none (lines 444-447, 527-534).
FindTraceBug(store, trace_id) ==
    LET hits == {i \in 1..Len(store) : store[i].id = trace_id} IN
    IF hits = {} THEN Len(store) ELSE CHOOSE i \in hits : \A j \in hits : i <= j
FindTrace(store, trace_id) ==
    LET hits == {i \in 1..Len(store) : store[i].id = trace_id} IN
    IF hits = {} THEN 0 ELSE CHOOSE i \in hits : \A j \in hits : i <= j

\* A translation: the JSON object the model returned, by its detected_language.
NoTranslation == "<none>"

\* A request and its response.  For /api/analyze, analyses is all_analyses
\* as the batches returned it.
Response(op, category, trace_id, limit, status, error, body, analyzed, analyses, result) ==
    [op |-> op, category |-> category, trace_id |-> trace_id, limit |-> limit,
     status |-> status, error |-> error, traces |-> body, analyzed |-> analyzed,
     analyses |-> analyses, result |-> result]
NoRequest == Response("none", Absent, Absent, NoLimit, 0, FALSE, <<>>, {}, <<>>, NoTranslation)

Snapshot(store, analyzed, translations) ==
    [traces_data |-> store, analysis_cache |-> analyzed, translation_cache |-> translations]

(***************************************************************************)
(* The requests and the model's answers to them.                           *)
(***************************************************************************)
\* The ids of the traces load_traces found.
LoadedIds == <<"t1", "t2">>

MaxRequests == 2
MaxLimit == 1

CategoryParams == INTEREST_CATEGORIES \cup {"bogus", Absent}
TraceIdParams == {LoadedIds[i] : i \in 1..Len(LoadedIds)} \cup {"nope"}
Limits == {NoLimit} \cup {Limit(TRUE, n) : n \in (0 - 1)..MaxLimit}
Translations == {"Spanish", "English"}

\* What the scoring model may say about one trace of the batch.
EntryFor(trace_id, choice) ==
    CASE choice = "low" -> <<Result(trace_id, 40, "low interest")>>
      [] choice = "high" -> <<Result(trace_id, 80, "high interest")>>
      [] choice = "no_reason" -> <<Result(trace_id, 80, Absent)>>
      [] choice = "no_score" -> <<Result(trace_id, NoScore, "low interest")>>
      [] OTHER -> <<>>
EntryChoices == {"omit", "low", "high", "no_reason", "no_score"}

\* What it may add after them: an id that is not loaded, an entry with no
\* id, a second entry for the first trace of the batch.
Strays(batch) ==
    {<<Result("zz", 40, "low interest")>>, <<Result(Absent, 40, "low interest")>>}
    \cup (IF batch = <<>> THEN {} ELSE {<<Result(batch[1].id, 60, "second entry")>>})

Entries(batch, ch) == Concat([i \in 1..Len(batch) |-> EntryFor(batch[i].id, ch[i])])

\* The answers to one batch-scoring call: a failure, a text that is no JSON
\* object, one choice per trace, or nothing or "high" for every trace
\* followed by a stray entry.
BatchResponses(batch) ==
    {BatchResponse("error", <<>>), BatchResponse("array", <<>>)}
    \cup {BatchResponse("object", Entries(batch, ch)) :
            ch \in [1..Len(batch) -> EntryChoices]}
    \cup {BatchResponse("object", Entries(batch, [i \in 1..Len(batch) |-> c]) \o stray) :
            c \in {"omit", "high"}, stray \in Strays(batch)}

\* The answers to the two WRI calls for one trace.
HighClassification ==
    Classification("object", ScoreNumber(98), "true", JStr("palm oil"), JStr("Brazil"),
                   JStr("AFR100"), JStr("NGO"), "Palm oil story.")
WriOutcome(a, sr) == [a |-> a, sr |-> sr]
WriOutcomes ==
    {WriOutcome(ClassificationOf("error"), NoSearch),
     WriOutcome([HighClassification EXCEPT !.score = ScoreNumber(49)], NoSearch),
     WriOutcome(HighClassification, SearchResponse("error", Absent, JAbsent, JAbsent, Absent)),
     WriOutcome(HighClassification,
                SearchResponse("object", "true", JStr("https://wri.org/a"), JStr(""), Absent))}

\* What one batch can return (lines 466-469).
BatchAnalyses(batch, category) ==
    IF category = "wri_connections"
    THEN {[i \in 1..Len(batch) |-> WriTraceResult(batch[i].id, o[i].a, o[i].sr)] :
            o \in [1..Len(batch) -> WriOutcomes]}
    ELSE {AnalyzeTraceBatch(r) : r \in BatchResponses(batch)}

\* all_analyses after the batches from b on (lines 463-470).
RECURSIVE AllAnalyses(_, _, _)
AllAnalyses(store, b, category) ==
    IF b > BatchCount(Len(store)) THEN {<<>>}
    ELSE {x \o y : x \in BatchAnalyses(BatchOf(store, b), category),
                   y \in AllAnalyses(store, b + 1, category)}

ApiIdle ==
    /\ traces_data = <<>>
    /\ analysis_cache = {}
    /\ translation_cache = <<>>
    /\ last = NoRequest
    /\ prev = Snapshot(<<>>, {}, <<>>)
    /\ translate_log = <<>>
    /\ nreq = 0

\* The state load_traces leaves: the loaded traces, nothing analyzed or translated.
Init ==
    /\ traces_data = [i \in 1..Len(LoadedIds) |-> LoadedTrace(LoadedIds[i])]
    /\ analysis_cache = {}
    /\ translation_cache = [id \in TraceIdParams |-> NoTranslation]
    /\ last = NoRequest
    /\ prev = Snapshot(traces_data, analysis_cache, translation_cache)
    /\ translate_log = <<>>
    /\ nreq = 0
    /\ ParseIdle
    /\ WriIdle

\* Every handler: one more request served, from the state it found.
Served ==
    /\ nreq < MaxRequests
    /\ nreq' = nreq + 1
    /\ prev' = Snapshot(traces_data, analysis_cache, translation_cache)
    /\ UNCHANGED <<parse_vars, wri_vars>>

\* category and category in INTEREST_CATEGORIES (line 426)
KnownCategory(category) == category # Absent /\ category \in INTEREST_CATEGORIES

\* The ranking of lines 427-428 and 505-506.
Ranked(store, category) == SortByScore(Scored(store, category), category)

\* GET /api/traces (lines 417-438)
GetTraces ==
    /\ Served
    /\ \E category \in CategoryParams, limit \in Limits :
          LET result == IF KnownCategory(category) THEN Ranked(traces_data, category)
                        ELSE traces_data
          IN last' = Response("get_traces", category, Absent, limit, 200, FALSE,
                              ApplyLimit(result, limit), {}, <<>>, NoTranslation)
    /\ UNCHANGED <<traces_data, analysis_cache, translation_cache, translate_log>>

\* GET /api/trace/<trace_id> (lines 441-447)
GetTrace ==
    /\ Served
    /\ \E trace_id \in TraceIdParams :
          LET i == FindTrace(traces_data, trace_id) IN
          last' = IF i = 0
                  THEN Response("get_trace", Absent, trace_id, NoLimit, 404, TRUE,
                                <<>>, {}, <<>>, NoTranslation)
                  ELSE Response("get_trace", Absent, trace_id, NoLimit, 200, FALSE,
                                <<traces_data[i]>>, {}, <<>>, NoTranslation)
    /\ UNCHANGED <<traces_data, analysis_cache, translation_cache, translate_log>>

\* POST /api/analyze (lines 450-487).  An exception that leaves the handler
\* is answered by the framework with status 500.
AnalyzeTraces ==
    /\ Served
    /\ \E category \in CategoryParams :
          IF ~KnownCategory(category)
          THEN /\ last' = Response("analyze", category, Absent, NoLimit, 400, TRUE,
                                   <<>>, {}, <<>>, NoTranslation)
               /\ UNCHANGED <<traces_data, analysis_cache>>
          ELSE \E all \in AllAnalyses(traces_data, 1, category) :
                  LET m == MergeAnalyses(traces_data, category, all) IN
                  /\ traces_data' = m.store
                  /\ analysis_cache' = IF m.exc = "none"
                                       THEN analysis_cache \cup {category}
                                       ELSE analysis_cache
                  /\ last' = Response("analyze", category, Absent, NoLimit,
                                      IF m.exc = "none" THEN 200 ELSE 500, FALSE,
                                      <<>>, {}, all, NoTranslation)
    /\ UNCHANGED <<translation_cache, translate_log>>

\* GET /api/analysis-status (lines 490-496)
AnalysisStatus ==
    /\ Served
    /\ last' = Response("analysis_status", Absent, Absent, NoLimit, 200, FALSE,
                        <<>>, analysis_cache, <<>>, NoTranslation)
    /\ UNCHANGED <<traces_data, analysis_cache, translation_cache, translate_log>>

\* GET /api/top-traces/<category> (lines 499-512)
GetTopTraces ==
    /\ Served
    /\ \E category \in CategoryParams \ {Absent} :
          last' = IF category \notin INTEREST_CATEGORIES
                  THEN Response("top_traces", category, Absent, NoLimit, 400, TRUE,
                                <<>>, {}, <<>>, NoTranslation)
                  ELSE Response("top_traces", category, Absent, NoLimit, 200, FALSE,
                                SliceTo(Ranked(traces_data, category), TopN),
                                {}, <<>>, NoTranslation)
    /\ UNCHANGED <<traces_data, analysis_cache, translation_cache, translate_log>>

\* translation_cache[trace_id] = result (line 584)
CacheTranslationBug(cache, trace_id, result) == cache
CacheTranslation(cache, trace_id, result) == [cache EXCEPT ![trace_id] = result]

Translated(trace_id, llm_call, status, result) ==
    [trace_id |-> trace_id, llm_call |-> llm_call, status |-> status, result |-> result]

\* GET /api/translate/<trace_id> (lines 519-590)
TranslateTrace ==
    /\ Served
    /\ \E trace_id \in TraceIdParams :
          IF translation_cache[trace_id] # NoTranslation
          THEN /\ last' = Response("translate", Absent, trace_id, NoLimit, 200, FALSE,
                                   <<>>, {}, <<>>, translation_cache[trace_id])
               /\ translate_log' = Append(translate_log,
                     Translated(trace_id, FALSE, 200, translation_cache[trace_id]))
               /\ UNCHANGED translation_cache
          ELSE IF FindTrace(traces_data, trace_id) = 0
          THEN /\ last' = Response("translate", Absent, trace_id, NoLimit, 404, TRUE,
                                   <<>>, {}, <<>>, NoTranslation)
               /\ translate_log' = Append(translate_log,
                     Translated(trace_id, FALSE, 404, NoTranslation))
               /\ UNCHANGED translation_cache
          ELSE \E answer \in Translations \cup {"error"} :
                  IF answer = "error"
                  THEN /\ last' = Response("translate", Absent, trace_id, NoLimit, 500,
                                           TRUE, <<>>, {}, <<>>, NoTranslation)
                       /\ translate_log' = Append(translate_log,
                             Translated(trace_id, TRUE, 500, NoTranslation))
                       /\ UNCHANGED translation_cache
                  ELSE /\ last' = Response("translate", Absent, trace_id, NoLimit, 200,
                                           FALSE, <<>>, {}, <<>>, answer)
                       /\ translate_log' = Append(translate_log,
                             Translated(trace_id, TRUE, 200, answer))
                       /\ translation_cache' =
                             CacheTranslation(translation_cache, trace_id, answer)
    /\ UNCHANGED <<traces_data, analysis_cache>>

Next ==
    \/ GetTraces
    \/ GetTrace
    \/ AnalyzeTraces
    \/ AnalysisStatus
    \/ GetTopTraces
    \/ TranslateTrace

Spec == Init /\ [][Next]_vars

(***************************************************************************)
(* analyze_wri_connections_batch, call by call, on a batch of at most      *)
(* MaxBatch traces.                                                        *)
(***************************************************************************)
InitWri ==
    /\ w_batch \in {[i \in 1..n |-> TraceId(i)] : n \in 0..MaxBatch}
    /\ w_i = 1
    /\ w_pc = "next"
    /\ w_analysis = NoClassification
    /\ w_search = NoSearch
    /\ w_results = <<>>
    /\ w_log = <<>>
    /\ ParseIdle
    /\ ApiIdle

\* The classification call is sent for the trace the loop is at (line 193).
StartClassification ==
    /\ w_pc = "next"
    /\ w_i <= Len(w_batch)
    /\ w_pc' = "classifying"
    /\ w_log' = Append(w_log, Event("classify_call", w_i))
    /\ UNCHANGED <<w_batch, w_i, w_analysis, w_search, w_results>>
    /\ UNCHANGED <<parse_vars, api_vars>>

\* The classification call returns (lines 193-204).
ClassificationReturns ==
    /\ w_pc = "classifying"
    /\ \E a \in Classifications : w_analysis' = a
    /\ w_pc' = "classified"
    /\ w_log' = Append(w_log, Event("classify_return", w_i))
    /\ UNCHANGED <<w_batch, w_i, w_search, w_results>>
    /\ UNCHANGED <<parse_vars, api_vars>>

\* No search is made: the result is appended by line 234 or by line 242.
AppendWithoutSearch ==
    /\ w_pc = "classified"
    /\ AfterClassification(w_analysis) # "search"
    /\ w_results' = Append(w_results, ResultWithoutSearch(w_batch[w_i], w_analysis))
    /\ w_pc' = "appended"
    /\ UNCHANGED <<w_batch, w_i, w_analysis, w_search, w_log>>
    /\ UNCHANGED <<parse_vars, api_vars>>

\* The search call is sent (line 224, line 96).
StartSearch ==
    /\ w_pc = "classified"
    /\ AfterClassification(w_analysis) = "search"
    /\ w_pc' = "searching"
    /\ w_log' = Append(w_log, Event("search_call", w_i))
    /\ UNCHANGED <<w_batch, w_i, w_analysis, w_search, w_results>>
    /\ UNCHANGED <<parse_vars, api_vars>>

\* The search call returns and the result is appended (lines 96-132, 226-246).
SearchReturns ==
    /\ w_pc = "searching"
    /\ \E sr \in SearchResponses :
          /\ w_search' = sr
          /\ w_results' = Append(w_results,
                ResultWithEvidence(w_batch[w_i], w_analysis, SearchWriEvidence(sr)))
    /\ w_pc' = "appended"
    /\ w_log' = Append(w_log, Event("search_return", w_i))
    /\ UNCHANGED <<w_batch, w_i, w_analysis>>
    /\ UNCHANGED <<parse_vars, api_vars>>

\* The for loop moves to the next trace (line 139).
NextTrace ==
    /\ w_pc = "appended"
    /\ w_i' = w_i + 1
    /\ w_pc' = "next"
    /\ w_analysis' = NoClassification
    /\ w_search' = NoSearch
    /\ UNCHANGED <<w_batch, w_results, w_log>>
    /\ UNCHANGED <<parse_vars, api_vars>>

\* return results (line 248)
ReturnResults ==
    /\ w_pc = "next"
    /\ w_i > Len(w_batch)
    /\ w_pc' = "returned"
    /\ UNCHANGED <<w_batch, w_i, w_analysis, w_search, w_results, w_log>>
    /\ UNCHANGED <<parse_vars, api_vars>>

NextWri ==
    \/ StartClassification
    \/ ClassificationReturns
    \/ AppendWithoutSearch
    \/ StartSearch
    \/ SearchReturns
    \/ NextTrace
    \/ ReturnResults

SpecWri == InitWri /\ [][NextWri]_vars

(***************************************************************************)
(* The CSV files parse_traces is run on: every sequence of at most MaxRows *)
(* rows drawn from RowShapes, the row at position i carrying id "r<i>".    *)
(***************************************************************************)
MaxRows == 2

InHi == ColJson(DocMessages(<<Msg("human", JStr("hi"))>>))
InMixed == ColJson(DocMessages(<<Msg(Absent, JStr("q")), Msg("human", JStr("")),
                                 Msg("system", JNumber), Msg("human", JStr("q"))>>))
InBlank == ColJson(DocMessages(<<Msg("human", JStr("")), Msg("human", JNull)>>))
InArray == ColJson(DocArray)
InNoMessages == ColJson(DocEmpty)
InNullMessages == ColJson(DocNullMessages)
InBareMessage == ColJson(DocMessages(<<Msg("human", JStr("hi")), BareMsg>>))

OutEcho == ColJson(DocMessages(<<Msg("ai", JStr("hi")), Msg("ai", JStr("hello"))>>))
OutParts == ColJson(DocMessages(
    <<Msg(Absent, JList(<<Part("text", "a"), Part("tool_use", "x"), BarePart,
                          Part("text", "b")>>)),
      Msg("ai", JStr("a\nb")),
      Msg("ai", JList(<<Part("tool_use", "x")>>)),
      Msg("ai", JList(<<>>))>>))
OutRepeat == ColJson(DocMessages(<<Msg("ai", JStr("hello")), Msg("tool", JStr("")),
                                   Msg("ai", JStr("hello")), Msg("ai", JStr("q"))>>))
OutArray == ColJson(DocArray)
OutNullMessages == ColJson(DocNullMessages)
OutBareMessage == ColJson(DocMessages(<<Msg("ai", JStr("hello")), BareMsg>>))
OutObjectContent == ColJson(DocMessages(<<Msg("ai", JObject)>>))
OutNumberContent == ColJson(DocMessages(<<Msg("ai", JNumber)>>))

InputCols == {InHi, InMixed, InBlank, ColAbsent, ColEmpty, ColInvalid, InArray,
              InNoMessages, InNullMessages, InBareMessage}
OutputCols == {OutEcho, OutParts, OutRepeat, ColAbsent, ColEmpty, ColInvalid, OutArray,
               OutNullMessages, OutBareMessage, OutObjectContent, OutNumberContent}

NumTexts == {Absent, "", "12", "1.5", "abc"}
GoodNum == [c \in {NumericColumns[i] : i \in 1..Len(NumericColumns)} |-> "12"]
\* The numeric columns all "12", or all "12" but one.
NumShapes == {[GoodNum EXCEPT ![NumericColumns[i]] = t] :
                 i \in 1..Len(NumericColumns), t \in NumTexts}

RowShape(input, output, num) == [input |-> input, output |-> output, num |-> num]

RowShapes ==
    {RowShape(i, OutEcho, GoodNum) : i \in InputCols}
    \cup {RowShape(InHi, o, GoodNum) : o \in OutputCols}
    \cup {RowShape(InBlank, ColAbsent, GoodNum), RowShape(InArray, ColInvalid, GoodNum),
          RowShape(ColInvalid, OutArray, GoodNum), RowShape(InMixed, OutRepeat, GoodNum),
          RowShape(InArray, OutEcho, [GoodNum EXCEPT !["latency"] = "abc"])}
    \cup {RowShape(InHi, OutEcho, n) : n \in NumShapes}

RowId(i) == "r" \o ToString(i)

InitParse ==
    /\ csv_rows \in UNION {[1..n -> RowShapes] : n \in 0..MaxRows}
    /\ row_idx = 1
    /\ traces = <<>>
    /\ parse_pc = "reading"
    /\ WriIdle
    /\ ApiIdle

\* The row the reader is at, with the id column filled in.
CurrentRow == [id |-> RowId(row_idx), input |-> csv_rows[row_idx].input,
               output |-> csv_rows[row_idx].output, num |-> csv_rows[row_idx].num]

\* One iteration of the for loop whose try block completes (lines 257-312).
ParseRow ==
    /\ parse_pc = "reading"
    /\ row_idx <= Len(csv_rows)
    /\ LET r == ParseRowBody(CurrentRow) IN
         /\ r.exc = "none"
         /\ traces' = IF r.keep THEN Append(traces, r.trace) ELSE traces
    /\ row_idx' = row_idx + 1
    /\ UNCHANGED <<csv_rows, parse_pc>>
    /\ UNCHANGED <<wri_vars, api_vars>>

\* One iteration whose try block raises an exception the except clause
\* catches (lines 314-316): the row is logged and skipped.
SkipRow ==
    /\ parse_pc = "reading"
    /\ row_idx <= Len(csv_rows)
    /\ ParseRowBody(CurrentRow).exc \in CaughtByParser
    /\ row_idx' = row_idx + 1
    /\ UNCHANGED <<csv_rows, traces, parse_pc>>
    /\ UNCHANGED <<wri_vars, api_vars>>

\* One iteration whose try block raises an exception the except clause does
\* not list: it leaves parse_traces, and load_traces, with no list returned.
RaiseFromRow ==
    /\ parse_pc = "reading"
    /\ row_idx <= Len(csv_rows)
    /\ ParseRowBody(CurrentRow).exc \notin CaughtByParser \cup {"none"}
    /\ parse_pc' = "raised"
    /\ traces' = <<>>
    /\ UNCHANGED <<csv_rows, row_idx>>
    /\ UNCHANGED <<wri_vars, api_vars>>

\* return traces (line 318)
ReturnTraces ==
    /\ parse_pc = "reading"
    /\ row_idx > Len(csv_rows)
    /\ parse_pc' = "returned"
    /\ UNCHANGED <<csv_rows, row_idx, traces>>
    /\ UNCHANGED <<wri_vars, api_vars>>

NextParse == ParseRow \/ SkipRow \/ RaiseFromRow \/ ReturnTraces

SpecParse == InitParse /\ [][NextParse]_vars

(***************************************************************************)
(* Properties of parse_traces (checked under SpecParse).                   *)
(***************************************************************************)

\* The items of s at the positions in S, in their order.
ItemsAt(s, S) ==
    LET F[i \in 0..Len(s)] ==
            IF i = 0 THEN <<>>
            ELSE IF i \in S THEN Append(F[i - 1], s[i]) ELSE F[i - 1]
    IN F[Len(s)]

RowAt(i) == [id |-> RowId(i), input |-> csv_rows[i].input,
             output |-> csv_rows[i].output, num |-> csv_rows[i].num]

\* The text an output message contributes: a list content is its text parts
\* joined by newlines, any other content is itself.
ResolvedContent(msg) ==
    LET c == GetContent(msg) IN
    IF c.t = "array" THEN JStr(JoinLines(TextParts(c.parts))) ELSE c

\* The conversation the claim describes for a row whose columns decode to
\* message lists ins and outs.
DescribedConversation(ins, outs) ==
    LET keptIn == {i \in 1..Len(ins) :
                     GetContent(ins[i]).t = "string" /\ GetContent(ins[i]).s # ""}
        inTurns == ItemsAt([i \in 1..Len(ins) |->
                              Turn(GetRole(ins[i], "human"), GetContent(ins[i]))], keptIn)
        keptOut == {j \in 1..Len(outs) :
                      /\ Truthy(ResolvedContent(outs[j]))
                      /\ \A i \in 1..Len(inTurns) :
                            inTurns[i].content # ResolvedContent(outs[j])
                      /\ \A k \in 1..(j - 1) :
                            ResolvedContent(outs[k]) # ResolvedContent(outs[j])}
        outTurns == ItemsAt([j \in 1..Len(outs) |->
                               Turn(GetRole(outs[j], "ai"), ResolvedContent(outs[j]))],
                            keptOut)
    IN inTurns \o outTurns

RowMessages(col) == IF col.raw = "json" /\ col.doc.mt = "array" THEN col.doc.messages ELSE <<>>

RowOfTrace(tr) == CHOOSE i \in 1..Len(csv_rows) : RowId(i) = tr.id

\* C2: every loaded trace's conversation is its row's input messages with
\* non-empty string content, in order, followed by its output messages in
\* order, an output message being kept only if its content is non-empty and
\* equals the content of no turn collected before it; the row
\* input [human:"hi"], output [ai:"hi", ai:"hello"] gives human:"hi", ai:"hello".
ConversationIsInputsThenNewOutputs ==
    \A n \in 1..Len(traces) :
        LET tr == traces[n]
            row == csv_rows[RowOfTrace(tr)]
        IN /\ tr.conversation =
                 DescribedConversation(RowMessages(row.input), RowMessages(row.output))
           /\ (row.input = InHi /\ row.output = OutEcho)
                 => tr.conversation = <<Turn("human", JStr("hi")), Turn("ai", JStr("hello"))>>

\* A returned list holding the trace of the row input [human:"hi"],
\* output [ai:"hi", ai:"hello"], and one whose output repeated a text.
EchoedOutputParsed ==
    /\ parse_pc = "returned"
    /\ \E n \in 1..Len(traces) :
          /\ csv_rows[RowOfTrace(traces[n])].input = InHi
          /\ csv_rows[RowOfTrace(traces[n])].output = OutEcho
          /\ Len(traces[n].conversation) = 2
    /\ \E n \in 1..Len(traces) :
          /\ csv_rows[RowOfTrace(traces[n])].output = OutParts
          /\ traces[n].conversation = <<Turn("human", JStr("hi")), Turn("ai", JStr("a\nb"))>>

\* The rows whose input and output columns decode and yield a conversation.
JsonFine(row) ==
    /\ ParseRowBody(row).exc \in {"none", "ValueError"}
    /\ ParseRowBody(row).trace.conversation # <<>>

TraceOfRow(i) == {n \in 1..Len(traces) : traces[n].id = RowId(i)}

FieldOfColumn == [latency |-> "latency", inputTokens |-> "input_tokens",
                  outputTokens |-> "output_tokens", totalCost |-> "total_cost",
                  errorCount |-> "error_count"]

NumberType(col) == IF col \in FloatColumns THEN "float" ELSE "int"

\* C3: a row with a non-empty conversation whose latency, inputTokens,
\* outputTokens, totalCost or errorCount is missing, empty or not a number
\* is loaded, with that field 0 (float for latency and total_cost, integer
\* for the others).
NumericFieldsDefaultToZero ==
    parse_pc # "raised" =>
        \A i \in 1..(row_idx - 1) :
            JsonFine(RowAt(i)) =>
                /\ TraceOfRow(i) # {}
                /\ \A n \in TraceOfRow(i), c \in DOMAIN FieldOfColumn :
                      csv_rows[i].num[c] \in {Absent, "", "abc"}
                         => traces[n][FieldOfColumn[c]] = PyNum(NumberType(c), 0)

\* What the claim calls a malformed row: a column that is not JSON, that is
\* not an object with a list of message objects, or a message content that
\* is neither text nor a list of parts.
MalformedCol(col) ==
    \/ col.raw = "invalid"
    \/ /\ col.raw = "json"
       /\ \/ col.doc.t # "object"
          \/ col.doc.mt = "null"
          \/ \E i \in 1..Len(col.doc.messages) :
                \/ col.doc.messages[i].t # "object"
                \/ col.doc.messages[i].content.t \in {"number", "object"}

Malformed(row) == MalformedCol(row.input) \/ MalformedCol(row.output)

WellFormed(row) ==
    /\ ~Malformed(row)
    /\ \A c \in DOMAIN FieldOfColumn : row.num[c] \in {"12", "1.5"} /\ Convert(c, row.num[c]).exc = "none"
    /\ DescribedConversation(RowMessages(row.input), RowMessages(row.output)) # <<>>

\* C4: a malformed row is skipped and never stops ingestion: parse_traces
\* returns, no malformed row is in the list, and every well-formed row with a
\* non-empty conversation that follows a malformed row is in it, in file order.
MalformedRowsAreSkipped ==
    /\ parse_pc # "raised"
    /\ parse_pc = "returned" =>
          /\ \A i \in 1..Len(csv_rows) : Malformed(csv_rows[i]) => TraceOfRow(i) = {}
          /\ \A m, w \in 1..Len(csv_rows) :
                (m < w /\ Malformed(csv_rows[m]) /\ WellFormed(csv_rows[w]))
                   => TraceOfRow(w) # {}
          /\ \A a, b \in 1..Len(traces) :
                a < b => RowOfTrace(traces[a]) < RowOfTrace(traces[b])

(***************************************************************************)
(* Properties of analyze_wri_connections_batch (checked under SpecWri).    *)
(***************************************************************************)

\* The search calls issued for the trace at position i of the batch.
SearchCalls(i) == {p \in 1..Len(w_log) : w_log[p] = Event("search_call", i)}

SearchIsSingleAndLate ==
    /\ \A i \in 1..Len(w_batch) : Cardinality(SearchCalls(i)) <= 1
    /\ \A p \in 1..Len(w_log) :
          w_log[p].ev = "search_call"
             => \E q \in 1..(p - 1) : w_log[q] = Event("classify_return", w_log[p].i)

\* The search was called for by the classification of the current trace:
\* a score of at least 50 and has_connection true.
ScoreAndFlagCallForSearch ==
    /\ w_analysis.kind = "object"
    /\ w_analysis.score.t = "number"
    /\ w_analysis.score.n >= 50
    /\ w_analysis.has_connection = "true"

NoSearchBelowThreshold ==
    (w_i <= Len(w_batch) /\ SearchCalls(w_i) # {}) => ScoreAndFlagCallForSearch

TextOrNothing(v) == v.t \in {"string", "absent", "null"}
NonEmptyText(v) == v.t = "string" /\ v.s # ""

\* topic, region, wri_program and partner_type give a query: none of the
\* first three is anything but text, and one of the four at least is not
\* empty.
FieldsGiveQuery(a) ==
    /\ \A v \in {a.topic, a.region, a.wri_program} : TextOrNothing(v)
    /\ \/ \E v \in {a.topic, a.region, a.wri_program} : NonEmptyText(v)
       \/ Truthy(a.partner_type)

\* C5 as claimed: for each trace the search call is issued at most once and
\* only after the classification call returned, never when the score is
\* below 50 or has_connection is false, and exactly once when the score is
\* at least 50 and has_connection is true, whatever the extracted fields.
SearchFollowsScoreAndFlagAlone ==
    /\ SearchIsSingleAndLate
    /\ NoSearchBelowThreshold
    /\ (w_pc = "appended" /\ ScoreAndFlagCallForSearch)
          => Cardinality(SearchCalls(w_i)) = 1

\* C5 as amended: ... and exactly once when the score is at least 50,
\* has_connection is true and the extracted fields give a non-empty query;
\* with all four fields empty or absent, or a topic, region or program that
\* is not text, no search call is issued.
SearchFollowsScoreFlagAndQuery ==
    /\ SearchIsSingleAndLate
    /\ NoSearchBelowThreshold
    /\ (w_pc = "appended" /\ ScoreAndFlagCallForSearch)
          => Cardinality(SearchCalls(w_i)) = IF FieldsGiveQuery(w_analysis) THEN 1 ELSE 0

\* The second trace scored 50 with has_connection true and was searched
\* once; the first scored 49 and was not searched.
SearchedAtFifty ==
    /\ w_pc = "appended"
    /\ w_i = 2
    /\ w_analysis.score = ScoreNumber(50)
    /\ Cardinality(SearchCalls(2)) = 1
    /\ w_results[1].score = 49
    /\ SearchCalls(1) = {}

\* What the search call returned counts as a hit: found true with a URL,
\* the URL of the grounding metadata taking precedence.
ReturnedHit ==
    /\ w_search.kind = "object"
    /\ \/ w_search.grounding # Absent
       \/ w_search.found = "true" /\ Truthy(w_search.url)

HitUrl == IF w_search.grounding # Absent THEN w_search.grounding ELSE w_search.url.s

\* The iteration for the current trace went through without an exception.
NoExceptionForTrace ==
    /\ w_analysis.kind = "object"
    /\ w_analysis.score.t # "string"
    /\ ScoreAndFlagCallForSearch =>
          \A v \in {w_analysis.topic, w_analysis.region, w_analysis.wri_program} :
              TextOrNothing(v)
    /\ w_search.kind \in {"none", "error", "object"} \/ w_search.grounding # Absent

OneResultPerTrace ==
    /\ Len(w_results) = (IF w_pc = "appended" THEN w_i ELSE w_i - 1)
    /\ \A k \in 1..Len(w_results) : w_results[k].trace_id = w_batch[k]
    /\ w_pc = "returned" => Len(w_results) = Len(w_batch)

\* C7 as claimed: a failure of the classification call or of the
\* verification call for one trace gives that trace score 0 and reason
\* "Analysis error", and the list holds one result per trace, in batch order.
AnyFailedCallGivesAnalysisError ==
    /\ (w_pc = "appended" /\ (w_analysis.kind = "error" \/ w_search.kind = "error"))
          => /\ w_results[w_i].score = 0
             /\ w_results[w_i].reason = "Analysis error"
    /\ OneResultPerTrace

\* C7 as amended: a failure of the classification call gives that trace
\* score 0 and reason "Analysis error"; a failure of the verification call
\* counts as no hit, the trace keeping its classification score and
\* narrative; the list holds one result per trace, in batch order.
FailedClassificationGivesAnalysisError ==
    /\ (w_pc = "appended" /\ w_analysis.kind = "error")
          => /\ w_results[w_i].score = 0
             /\ w_results[w_i].reason = "Analysis error"
    /\ (w_pc = "appended" /\ w_search.kind = "error")
          => /\ w_results[w_i].score = w_analysis.score.n
             /\ w_results[w_i].reason =
                   (IF w_analysis.story = Absent THEN DefaultStory ELSE w_analysis.story)
    /\ OneResultPerTrace

\* The first trace's classification failed, the second trace's verification
\* failed, and both have their result.
BothStagesFailed ==
    /\ w_pc = "appended"
    /\ w_i = 2
    /\ w_search.kind = "error"
    /\ w_results[1] = Result(w_batch[1], 0, "Analysis error")
    /\ w_results[2].score = 98

(***************************************************************************)
(* Properties of the HTTP handlers (checked under Spec).                   *)
(***************************************************************************)

StoreUnchanged == prev = Snapshot(traces_data, analysis_cache, translation_cache)

\* The positions of the entries of the run's results that name the trace.
EntriesFor(id) ==
    {k \in 1..Len(last.analyses) :
        "trace_id" \in DOMAIN last.analyses[k] /\ last.analyses[k].trace_id = id}

LastEntryFor(id) ==
    last.analyses[CHOOSE k \in EntriesFor(id) : \A j \in EntriesFor(id) : j <= k]

\* C1: after a completed analysis run for category C, every trace that the
\* run's results cover has scores[C] and analysis[C] equal to the run's
\* score and reason for it, whatever was there before, and the scores and
\* reasons of every other category are those from before the run.
AnalyzeOverwritesOnlyItsCategory ==
    (last.op = "analyze" /\ last.status = 200) =>
        \A i \in 1..Len(traces_data) :
            LET t == traces_data[i]
                before == prev.traces_data[i]
            IN /\ t.id = before.id
               /\ EntriesFor(t.id) # {} =>
                     /\ t.scores[last.category] = LastEntryFor(t.id).score
                     /\ t.analysis[last.category] = LastEntryFor(t.id).reason
               /\ \A D \in INTEREST_CATEGORIES \ {last.category} :
                     /\ t.scores[D] = before.scores[D]
                     /\ t.analysis[D] = before.analysis[D]

\* A second run for the same category replaced the score 40 of the first
\* trace by 80.
SecondRunOverwrote ==
    /\ last.op = "analyze"
    /\ last.status = 200
    /\ prev.traces_data[1].scores[last.category] = 40
    /\ traces_data[1].scores[last.category] = 80
    /\ traces_data[1].analysis[last.category] = "high interest"

SameTraceRequests ==
    {pq \in (1..Len(translate_log)) \X (1..Len(translate_log)) :
        /\ pq[1] < pq[2]
        /\ translate_log[pq[1]].trace_id = translate_log[pq[2]].trace_id
        /\ FindTrace(traces_data, translate_log[pq[1]].trace_id) # 0}

\* C8 as claimed: for an existing trace id only the first translation
\* request issues the LLM call; every later request issues none and returns
\* the result of the first.
OnlyFirstTranslationCallsLlm ==
    /\ \A p \in 1..Len(translate_log) :
          (/\ FindTrace(traces_data, translate_log[p].trace_id) # 0
           /\ \A q \in 1..(p - 1) : translate_log[q].trace_id # translate_log[p].trace_id)
             => translate_log[p].llm_call
    /\ \A pq \in SameTraceRequests :
          /\ ~translate_log[pq[2]].llm_call
          /\ translate_log[pq[2]].status = translate_log[pq[1]].status
          /\ translate_log[pq[2]].result = translate_log[pq[1]].result

\* C8 as amended: for an existing trace id a translation request issues the
\* LLM call exactly when no earlier request for that id succeeded; once a
\* request has succeeded, every later request for that id issues no call
\* and returns the same result.
TranslationCallsUntilFirstSuccess ==
    /\ \A p \in 1..Len(translate_log) :
          FindTrace(traces_data, translate_log[p].trace_id) # 0 =>
             (translate_log[p].llm_call <=>
                 ~\E q \in 1..(p - 1) :
                     /\ translate_log[q].trace_id = translate_log[p].trace_id
                     /\ translate_log[q].status = 200)
    /\ \A pq \in SameTraceRequests :
          translate_log[pq[1]].status = 200 =>
             /\ ~translate_log[pq[2]].llm_call
             /\ translate_log[pq[2]].status = 200
             /\ translate_log[pq[2]].result = translate_log[pq[1]].result

\* Two requests for the same trace: the first called the LLM and succeeded,
\* the second was served the same result without a call.
SecondTranslationFromMemo ==
    /\ Len(translate_log) = 2
    /\ translate_log[1].trace_id = translate_log[2].trace_id
    /\ translate_log[1].llm_call
    /\ translate_log[1].status = 200
    /\ ~translate_log[2].llm_call
    /\ translate_log[2].result = translate_log[1].result
    /\ translate_log[2].result # NoTranslation

UnknownCategoryGiven == last.category # Absent /\ last.category \notin INTEREST_CATEGORIES

UnknownIdGiven == \A i \in 1..Len(traces_data) : traces_data[i].id # last.trace_id

Rejected(status) == last.status = status /\ last.error /\ StoreUnchanged

AnalysisRejectsUnknownCategory ==
    (last.op \in {"analyze", "top_traces"} /\ UnknownCategoryGiven) => Rejected(400)

LookupRejectsUnknownId ==
    (last.op \in {"get_trace", "translate"} /\ UnknownIdGiven) => Rejected(404)

\* C9 as claimed: every request that names an unknown category is answered
\* with status 400 and an error body, every request that names an unknown
\* trace id with status 404 and an error body, and neither changes the
\* store or the caches.
UnknownInputsAreRejected ==
    /\ AnalysisRejectsUnknownCategory
    /\ LookupRejectsUnknownId
    /\ (last.op = "get_traces" /\ UnknownCategoryGiven) => Rejected(400)

\* The first n entries of the store, n as the handler takes it: everything
\* for 0, all but the last -n for a negative n.
StoreCutAt(limit) ==
    LET n == Len(traces_data)
        m == IF ~limit.given \/ limit.n = 0 THEN n
             ELSE IF limit.n > 0 THEN (IF limit.n < n THEN limit.n ELSE n)
             ELSE (IF n + limit.n > 0 THEN n + limit.n ELSE 0)
    IN [k \in 1..m |-> traces_data[k]]

\* C9 as amended: POST /api/analyze and GET /api/top-traces answer an
\* unknown category with status 400 and an error body, GET /api/trace and
\* GET /api/translate answer an unknown trace id with status 404 and an
\* error body; GET /api/traces answers an unknown category with status 200
\* and the traces in load order, unfiltered; none of them changes the store
\* or the caches.
UnknownInputsAreRejectedButListed ==
    /\ AnalysisRejectsUnknownCategory
    /\ LookupRejectsUnknownId
    /\ (last.op = "get_traces" /\ UnknownCategoryGiven) =>
          /\ last.status = 200
          /\ ~last.error
          /\ last.traces = StoreCutAt(last.limit)
          /\ StoreUnchanged

\* The listing was asked for an unknown category after an analysis run and
\* answered 200 with both traces.
UnknownCategoryListed ==
    /\ last.op = "get_traces"
    /\ UnknownCategoryGiven
    /\ last.status = 200
    /\ Len(last.traces) = 2
    /\ analysis_cache # {}

ScoredAt(category) ==
    {p \in 1..Len(traces_data) : traces_data[p].scores[category] # NoScore}

\* The place of trace p in the ranking: behind every trace with a higher
\* score and every earlier trace with the same score.
RankOf(p, category) ==
    1 + Cardinality({q \in ScoredAt(category) :
           \/ traces_data[q].scores[category] > traces_data[p].scores[category]
           \/ /\ traces_data[q].scores[category] = traces_data[p].scores[category]
              /\ q < p})

IsRankingCutAt(list, category, n) ==
    /\ Len(list) = n
    /\ \A k \in 1..n :
          \E p \in ScoredAt(category) : RankOf(p, category) = k /\ list[k] = traces_data[p]

RankedListing ==
    /\ last.op \in {"get_traces", "top_traces"}
    /\ last.category \in INTEREST_CATEGORIES

AtMost(n, m) == IF n < m THEN n ELSE m

\* C10: GET /api/traces with a valid category and GET /api/top-traces
\* return exactly the traces that have a score for the category, in
\* descending score order with ties in load order, cut to the first limit
\* entries when a limit is given (to the first 10 for top-traces), and leave
\* the store unchanged.
ListingIsRankedAndCut ==
    RankedListing =>
        LET all == Cardinality(ScoredAt(last.category)) IN
        /\ last.status = 200
        /\ StoreUnchanged
        /\ IsRankingCutAt(last.traces, last.category,
              IF last.op = "top_traces" THEN AtMost(TopN, all)
              ELSE IF last.limit.given /\ last.limit.n >= 0 THEN AtMost(last.limit.n, all)
              ELSE IF last.limit.given THEN Len(last.traces)
              ELSE all)

\* What holds of the listing: as above with a limit of 0 taken as no limit
\* and a negative limit dropping that many entries from the end.
ListingIsRankedAndCutUnlessZero ==
    RankedListing =>
        LET all == Cardinality(ScoredAt(last.category)) IN
        /\ last.status = 200
        /\ StoreUnchanged
        /\ IsRankingCutAt(last.traces, last.category,
              IF last.op = "top_traces" THEN AtMost(TopN, all)
              ELSE IF ~last.limit.given \/ last.limit.n = 0 THEN all
              ELSE IF last.limit.n > 0 THEN AtMost(last.limit.n, all)
              ELSE IF all + last.limit.n > 0 THEN all + last.limit.n ELSE 0)

\* The last request was POST /api/analyze for a known category.
AnalyzeRan == last.op = "analyze" /\ last.category \in INTEREST_CATEGORIES

\* The run is recorded: /api/analysis-status lists its category.
RunIsListed == AnalyzeRan => last.category \in analysis_cache

\* A trace that the run's results do not name and that had no entry for the
\* run's category before the run has none after it.
UncoveredTracesStayUnscored ==
    AnalyzeRan =>
        \A i \in 1..Len(traces_data) :
            (/\ EntriesFor(traces_data[i].id) = {}
             /\ prev.traces_data[i].scores[last.category] = NoScore
             /\ prev.traces_data[i].analysis[last.category] = Absent)
               => /\ traces_data[i].scores[last.category] = NoScore
                  /\ traces_data[i].analysis[last.category] = Absent

\* C11: every /api/analyze request for a known category C ends with C
\* listed as analyzed, whatever the model returned for any batch (failure,
\* unparsable text, missing or extra ids, entries lacking a field), and a
\* trace named by no result of any run for C has no scores[C] and no
\* analysis[C] entry.
EveryRunIsListed ==
    /\ RunIsListed
    /\ UncoveredTracesStayUnscored

\* C12: in every reachable state each trace's scores and analysis mappings
\* have the same category keys: no score is stored without its reason and
\* no reason without its score.
ScoresAndAnalysisAligned ==
    \A i \in 1..Len(traces_data) :
        \A C \in INTEREST_CATEGORIES :
            (traces_data[i].scores[C] # NoScore) <=> (traces_data[i].analysis[C] # Absent)

====
